---- MODULE Spec2Model ----
(***************************************************************************)
(* Client-side job orchestration of the Agents page                        *)
(* (frontend/src/pages/Agents.jsx): the job registry `jobs`, the table of  *)
(* EventSource log streams `sseRefs`, the status poller pollUntilDone, the *)
(* output fetcher fetchOutputAndAttach and the run controller              *)
(* runAgent / runPipeline.                                                 *)
(*                                                                         *)
(* The page runs on a single-threaded event loop: every action below is    *)
(* the synchronous code between two suspension points (an await, a timer,  *)
(* an event delivery).  State setters are applied as written in the source *)
(* (a functional update of the previous value).                            *)
(*                                                                         *)
(* The backend is the environment.  It assigns job identifiers that are    *)
(* unique per invocation (a counter here), and answers every request with  *)
(* success or failure, nondeterministically.                               *)
(***************************************************************************)
EXTENDS Integers, Sequences, FiniteSets, TLC

\* ---------------------------------------------------------------- bounds
\* Job identifiers the backend hands out during one page session.
MaxJobs == 3
\* Log events delivered during one page session (all streams together).
MaxRunLines == 1
\* Log events delivered when the stream manager is driven directly.
MaxLines == 2
\* EventSource objects constructed when startSseForJob is driven directly.
MaxStreams == 2
\* Requests of one kind (start, stop, status) of the auto-reply controls in flight.
MaxCalls == 2

\* ------------------------------------------------------------- constants
NoJobId == 0
JobIds == 1..MaxJobs
Unset == "unset"
Terminal == {"completed", "failed"}
PollAnswers == {"error", "queued", "running", "completed", "failed"}
OutputError == "Output not available yet"
Payloads == {"p1"}

\* The agent kinds of the page (agentConfig), in pipeline order.
PipelineAgents ==
    <<"enrichment_agent", "scoring_agent", "employee_finder",
      "contact_finder", "email_sender">>
AgentNames == {PipelineAgents[k] : k \in 1..Len(PipelineAgents)}
\* The agents offered with a Run button once /agents/list has answered.
ListedAgents == {"enrichment_agent"}

\* e.data of a stream event, as a sequence of characters.
WS == {" ", "\t"}
Lines ==
    { <<"\t", " ">>, <<"a">>, <<" ", "b", "\t">> }

VARIABLES
    mounted,         \* the component is mounted (the effect cleanup has not run)
    listDone,        \* GET /agents/list has been answered
    agents,          \* useState: the agent list
    loading,         \* useState: loading
    jobs,            \* useState: jobId -> {status, agent, logs, output, output_error}
    runningAgentId,  \* useState: the job being run, or NoJobId
    es,              \* every EventSource constructed, in construction order
    sseRefs,         \* useRef: jobId -> index into es, 0 when the key is absent
    pc,              \* where the run in flight (runAgent / runPipeline) is suspended
    kind,            \* "none", "agent" or "pipeline": the run in flight or last run
    curAgent,        \* agentName of the stage in progress
    curJob,          \* jobId of the stage in progress
    jobsOrdered,     \* runPipeline: the list the backend returned
    idx,             \* runPipeline: position of the loop in jobsOrdered
    nextId,          \* backend: the next job identifier
    enqueued,        \* backend: the job identifiers it has created
    startReqs,       \* history: start requests issued by the run in flight
    queried,         \* history: jobs for which a status query was issued
    resolved,        \* history: jobs whose fetchOutputAndAttach has resolved
    lastPoll,        \* history: the answer pollUntilDone is sleeping on, or "none"
    received,        \* history: jobId -> e.data of the events delivered for it
    nLines,          \* history: events delivered so far
    emailAutoReplyRunning,  \* useState: the auto-reply flag
    startCalls,      \* startAutoReply calls awaiting their answer
    stopCalls,       \* stopAutoReply calls awaiting their answer
    statusPolls,     \* status polls of email_sender awaiting their answer
    autoAlert,       \* the alert of the auto-reply controls that is open, or "none"
    username,        \* localStorage holds a username
    lateReplies,     \* history: status polls answered after the teardown
    outcome,         \* backend: jobId -> "pending", or how the job ended
    artifact,        \* backend: agent -> the job that wrote its output artifact, or NoJobId
    backendRunning,  \* backend: the auto-reply loop of email_sender is running
    settled,         \* the backend state no longer changes and no control is clicked
    stalePolls       \* status polls in flight answered from an earlier backend state

vars ==
    <<mounted, listDone, agents, loading, jobs, runningAgentId, es, sseRefs, pc,
      kind, curAgent, curJob, jobsOrdered, idx, nextId, enqueued, startReqs,
      queried, resolved, lastPoll, received, nLines, emailAutoReplyRunning,
      startCalls, stopCalls, statusPolls, autoAlert, username, lateReplies,
      outcome, artifact, backendRunning, settled, stalePolls>>

pageVars == <<mounted, listDone, agents, username>>
runVars == <<pc, kind, curAgent, curJob, jobsOrdered, idx>>
backendVars == <<nextId, enqueued>>
streamVars == <<es, sseRefs>>
lineVars == <<received, nLines>>
pollHist == <<lastPoll, queried>>
artifactVars == <<outcome, artifact>>
syncVars == <<backendRunning, settled, stalePolls>>
autoVars ==
    <<emailAutoReplyRunning, startCalls, stopCalls, statusPolls, autoAlert,
      lateReplies, syncVars>>

\* ------------------------------------------------------- pure helpers
Min(a, b) == IF a < b THEN a ELSE b

\* {...prev, [k]: v}
Put(f, k, v) == [x \in (DOMAIN f) \cup {k} |-> IF x = k THEN v ELSE f[x]]

\* String.prototype.trim
RECURSIVE TrimLeft(_)
TrimLeft(s) ==
    IF s # <<>> /\ Head(s) \in WS THEN TrimLeft(Tail(s)) ELSE s

RECURSIVE TrimRight(_)
TrimRight(s) ==
    IF s # <<>> /\ s[Len(s)] \in WS THEN TrimRight(SubSeq(s, 1, Len(s) - 1)) ELSE s

trim(s) == TrimRight(TrimLeft(s))

\* /^\s+$/.test(line)
AllWhitespace(s) == s # <<>> /\ \A i \in 1..Len(s) : s[i] \in WS

\* !line || /^\s+$/.test(line)
Discarded(line) == line = <<>> \/ AllWhitespace(line)

\* prev[jobId] || {}  (a missing logs key is read as no lines)
EmptyJob ==
    [status |-> Unset, logs |-> <<>>, agent |-> Unset, output |-> Unset,
     output_error |-> Unset]

\* { status: "queued", logs: [], agent: agentName }
NewJob(agentName) ==
    [status |-> "queued", logs |-> <<>>, agent |-> agentName, output |-> Unset,
     output_error |-> Unset]


\* --------------------------------------------------- log stream manager
\* An EventSource: the job it streams, its readyState, and what closed it.
NewEventSource(jobId) == [job |-> jobId, readyState |-> "OPEN", by |-> "none"]

\* es.close(): no effect on a source that is closed already
Close(e, why) ==
    IF e.readyState = "OPEN" THEN [e EXCEPT !.readyState = "CLOSED", !.by = why] ELSE e

\* es.onmessage appending e.data itself instead of the trimmed line
onmessage_raw(js, jobId, data) ==
    LET line == trim(data) IN
    IF Discarded(line)
    THEN js
    ELSE LET j == IF jobId \in DOMAIN js THEN js[jobId] ELSE EmptyJob IN
         Put(js, jobId,
             [j EXCEPT !.logs = Append(j.logs, data),
                       !.status = IF j.status # Unset THEN j.status ELSE "running",
                       !.agent = IF j.agent # Unset THEN j.agent ELSE ""])

\* es.onmessage writing status: "running" whatever the entry holds
onmessage_overwrite(js, jobId, data) ==
    LET line == trim(data) IN
    IF Discarded(line)
    THEN js
    ELSE LET j == IF jobId \in DOMAIN js THEN js[jobId] ELSE EmptyJob IN
         Put(js, jobId,
             [j EXCEPT !.logs = Append(j.logs, line),
                       !.status = "running",
                       !.agent = IF j.agent # Unset THEN j.agent ELSE ""])

\* es.onmessage building the entry anew instead of spreading the previous one
onmessage_fresh(js, jobId, data) ==
    LET line == trim(data) IN
    IF Discarded(line)
    THEN js
    ELSE LET j == IF jobId \in DOMAIN js THEN js[jobId] ELSE EmptyJob IN
         Put(js, jobId,
             [EmptyJob EXCEPT !.logs = Append(j.logs, line),
                              !.status = IF j.status # Unset THEN j.status ELSE "running",
                              !.agent = IF j.agent # Unset THEN j.agent ELSE ""])

\* es.onmessage
onmessage(js, jobId, data) ==
    LET line == trim(data) IN
    IF Discarded(line)
    THEN js
    ELSE LET j == IF jobId \in DOMAIN js THEN js[jobId] ELSE EmptyJob IN
         Put(js, jobId,
             [j EXCEPT !.logs = Append(j.logs, line),
                       !.status = IF j.status # Unset THEN j.status ELSE "running",
                       !.agent = IF j.agent # Unset THEN j.agent ELSE ""])

\* startSseForJob without its first line
startSseForJob_noguard(st, jobId) ==
    [es |-> Append(st.es, NewEventSource(jobId)),
     refs |-> [st.refs EXCEPT ![jobId] = Len(st.es) + 1]]

\* startSseForJob(jobId) on the stream table st = [es, refs]
startSseForJob(st, jobId) ==
    IF st.refs[jobId] # 0
    THEN st
    ELSE [es |-> Append(st.es, NewEventSource(jobId)),
          refs |-> [st.refs EXCEPT ![jobId] = Len(st.es) + 1]]

\* the close listener without the delete
onclose_keepref(st, i) ==
    [es |-> [st.es EXCEPT ![i] = Close(@, "close")], refs |-> st.refs]

\* the listener of the named "close" event of source i
onclose(st, i) ==
    [es |-> [st.es EXCEPT ![i] = Close(@, "close")],
     refs |-> [st.refs EXCEPT ![st.es[i].job] = 0]]

\* es.onerror does nothing; a fatal error leaves the source CLOSED, otherwise
\* the browser reconnects and the source stays live
onerror(st, i, fatal) ==
    [es |-> IF fatal THEN [st.es EXCEPT ![i] = Close(@, "error")] ELSE st.es,
     refs |-> st.refs]

\* a cleanup that closes the first recorded stream only
cleanup_first(st) ==
    [es |-> [i \in 1..Len(st.es) |->
                IF i = 1 /\ \E j \in JobIds : st.refs[j] = i
                THEN Close(st.es[i], "teardown") ELSE st.es[i]],
     refs |-> st.refs]

\* the cleanup of the mount effect: Object.values(sseRefs.current).forEach(close)
cleanup(st) ==
    [es |-> [i \in 1..Len(st.es) |->
                IF \E j \in JobIds : st.refs[j] = i
                THEN Close(st.es[i], "teardown") ELSE st.es[i]],
     refs |-> st.refs]

\* ------------------------------------------------ poller and fetcher
\* pollUntilDone treating a failed query as the end of the job
pollUntilDone_giveup(js, jobId, r) ==
    IF r \in Terminal \/ r = "error"
    THEN [jobs |-> Put(js, jobId,
                       [(IF jobId \in DOMAIN js THEN js[jobId] ELSE EmptyJob)
                          EXCEPT !.status = IF r = "error" THEN "failed" ELSE r]),
          done |-> TRUE, thrown |-> FALSE]
    ELSE [jobs |-> js, done |-> FALSE, thrown |-> FALSE]

\* pollUntilDone rejecting when the job has failed
pollUntilDone_throwfailed(js, jobId, r) ==
    IF r = "failed"
    THEN [jobs |-> js, done |-> FALSE, thrown |-> TRUE]
    ELSE IF r = "completed"
    THEN [jobs |-> Put(js, jobId,
                       [(IF jobId \in DOMAIN js THEN js[jobId] ELSE EmptyJob)
                          EXCEPT !.status = r]),
          done |-> TRUE, thrown |-> FALSE]
    ELSE [jobs |-> js, done |-> FALSE, thrown |-> FALSE]

\* pollUntilDone writing { status } in place of the entry
pollUntilDone_replace(js, jobId, r) ==
    IF r \in Terminal
    THEN [jobs |-> Put(js, jobId, [EmptyJob EXCEPT !.status = r]),
          done |-> TRUE, thrown |-> FALSE]
    ELSE [jobs |-> js, done |-> FALSE, thrown |-> FALSE]

\* pollUntilDone resolving on the first status it is told
pollUntilDone_anyanswer(js, jobId, r) ==
    IF r \in Terminal
    THEN [jobs |-> Put(js, jobId,
                       [(IF jobId \in DOMAIN js THEN js[jobId] ELSE EmptyJob)
                          EXCEPT !.status = r]),
          done |-> TRUE, thrown |-> FALSE]
    ELSE [jobs |-> js, done |-> r # "error", thrown |-> FALSE]

\* pollUntilDone returning on completed only
pollUntilDone_completedonly(js, jobId, r) ==
    IF r = "completed"
    THEN [jobs |-> Put(js, jobId,
                       [(IF jobId \in DOMAIN js THEN js[jobId] ELSE EmptyJob)
                          EXCEPT !.status = r]),
          done |-> TRUE, thrown |-> FALSE]
    ELSE [jobs |-> js, done |-> FALSE, thrown |-> FALSE]

\* one answer r to the status query of pollUntilDone(jobId)
pollUntilDone(js, jobId, r) ==
    IF r \in Terminal
    THEN [jobs |-> Put(js, jobId,
                       [(IF jobId \in DOMAIN js THEN js[jobId] ELSE EmptyJob)
                          EXCEPT !.status = r]),
          done |-> TRUE, thrown |-> FALSE]
    ELSE [jobs |-> js, done |-> FALSE, thrown |-> FALSE]

\* fetchOutputAndAttach without its catch block
fetchOutputAndAttach_nocatch(js, agentName, jobId, ok, payload) ==
    LET j == IF jobId \in DOMAIN js
             THEN js[jobId]
             ELSE [EmptyJob EXCEPT !.status = "completed", !.agent = agentName]
    IN IF ok
       THEN [jobs |-> Put(js, jobId, [j EXCEPT !.output = payload]), thrown |-> FALSE]
       ELSE [jobs |-> js, thrown |-> TRUE]

\* fetchOutputAndAttach setting output_error next to the output
fetchOutputAndAttach_witherror(js, agentName, jobId, ok, payload) ==
    LET j == IF jobId \in DOMAIN js
             THEN js[jobId]
             ELSE [EmptyJob EXCEPT !.status = "completed", !.agent = agentName]
    IN IF ok
       THEN [jobs |-> Put(js, jobId, [j EXCEPT !.output = payload,
                                               !.output_error = OutputError]),
             thrown |-> FALSE]
       ELSE [jobs |-> Put(js, jobId, [j EXCEPT !.output_error = OutputError]),
             thrown |-> FALSE]

\* the answer to the output request of fetchOutputAndAttach(agentName, jobId)
fetchOutputAndAttach(js, agentName, jobId, ok, payload) ==
    LET j == IF jobId \in DOMAIN js
             THEN js[jobId]
             ELSE [EmptyJob EXCEPT !.status = "completed", !.agent = agentName]
    IN IF ok
       THEN [jobs |-> Put(js, jobId, [j EXCEPT !.output = payload]), thrown |-> FALSE]
       ELSE [jobs |-> Put(js, jobId, [j EXCEPT !.output_error = OutputError]),
             thrown |-> FALSE]

\* ------------------------------------------------------ run controller
\* a stage loop that registers and attaches every remaining entry up front
stageEntries_ahead(ordered, k) == SubSeq(ordered, k, Len(ordered))

\* the entries one iteration of the stage loop registers and attaches
stageEntries(ordered, k) == <<ordered[k]>>

\* startSseForJob for each entry, without the setJobs(create) before it
RECURSIVE Register_noentry(_, _)
Register_noentry(w, entries) ==
    IF entries = <<>>
    THEN w
    ELSE LET e == Head(entries) IN
         Register_noentry([jobs |-> w.jobs, st |-> startSseForJob(w.st, e.job_id)],
                          Tail(entries))

\* setJobs(create) and startSseForJob for each entry, in order
RECURSIVE Register(_, _)
Register(w, entries) ==
    IF entries = <<>>
    THEN w
    ELSE LET e == Head(entries) IN
         Register([jobs |-> Put(w.jobs, e.job_id, NewJob(e.agent)),
                   st |-> startSseForJob(w.st, e.job_id)],
                  Tail(entries))

\* what the backend returns for a pipeline of n stages
PipelineJobs(first, n) ==
    [k \in 1..n |-> [job_id |-> first + k - 1, agent |-> PipelineAgents[k]]]

\* the Run and Run Full Workflow buttons are rendered and not disabled
RunEnabled == mounted /\ ~loading /\ runningAgentId = NoJobId

Init ==
    /\ mounted = TRUE
    /\ listDone = FALSE
    /\ agents = {}
    /\ loading = TRUE
    /\ jobs = <<>>
    /\ runningAgentId = NoJobId
    /\ es = <<>>
    /\ sseRefs = [j \in JobIds |-> 0]
    /\ pc = "idle"
    /\ kind = "none"
    /\ curAgent = Unset
    /\ curJob = NoJobId
    /\ jobsOrdered = <<>>
    /\ idx = 0
    /\ nextId = 1
    /\ enqueued = {}
    /\ startReqs = 0
    /\ queried = {}
    /\ resolved = {}
    /\ lastPoll = "none"
    /\ received = [j \in JobIds |-> <<>>]
    /\ nLines = 0
    /\ emailAutoReplyRunning = FALSE
    /\ startCalls = 0
    /\ stopCalls = 0
    /\ statusPolls = 1
    /\ autoAlert = "none"
    /\ username = TRUE
    /\ lateReplies = 0
    /\ outcome = [j \in JobIds |-> "pending"]
    /\ artifact = [a \in AgentNames |-> NoJobId]
    /\ backendRunning = FALSE
    /\ settled = FALSE
    /\ stalePolls = 0

\* a mount effect that fetches the list whether or not a username is stored
listFetch_always(user) == TRUE

\* the mount effect issues GET /agents/list unless no username is stored
listFetch(user) == user

\* the status polls the poll effect issues on mount: one, none without username
statusPollEffect(user) == IF user THEN 1 ELSE 0

\* GET /agents/list is answered
ListResponse ==
    /\ listFetch(username)
    /\ ~listDone
    /\ listDone' = TRUE
    /\ \E ok \in BOOLEAN :
          agents' = IF ok /\ mounted THEN ListedAgents ELSE agents
    /\ loading' = IF mounted THEN FALSE ELSE loading
    /\ UNCHANGED <<mounted, username, autoVars, artifactVars, jobs, runningAgentId, streamVars, runVars,
                   backendVars, startReqs, resolved, pollHist, lineVars>>

\* a run that does not call setLoading(true)
BeginRun_noloading(k, agentName) ==
    /\ RunEnabled
    /\ nextId <= MaxJobs
    /\ loading' = loading
    /\ pc' = "start_wait"
    /\ kind' = k
    /\ curAgent' = agentName
    /\ curJob' = NoJobId
    /\ jobsOrdered' = <<>>
    /\ idx' = 0
    /\ startReqs' = 1
    /\ lastPoll' = "none"
    /\ UNCHANGED <<pageVars, autoVars, artifactVars, jobs, runningAgentId, streamVars, backendVars, queried,
                   resolved, lineVars>>

\* the synchronous head of runAgent / runPipeline, up to the start request
BeginRun(k, agentName) ==
    /\ RunEnabled
    /\ nextId <= MaxJobs
    /\ loading' = TRUE
    /\ pc' = "start_wait"
    /\ kind' = k
    /\ curAgent' = agentName
    /\ curJob' = NoJobId
    /\ jobsOrdered' = <<>>
    /\ idx' = 0
    /\ startReqs' = 1
    /\ lastPoll' = "none"
    /\ UNCHANGED <<pageVars, autoVars, artifactVars, jobs, runningAgentId, streamVars, backendVars, queried,
                   resolved, lineVars>>

ClickRun == \E a \in agents : BeginRun("agent", a)

ClickPipeline == BeginRun("pipeline", Unset)

\* the run function returns: its locals are gone
Return ==
    /\ pc' = "idle"
    /\ kind' = "none"
    /\ startReqs' = 0
    /\ curAgent' = Unset
    /\ curJob' = NoJobId
    /\ jobsOrdered' = <<>>
    /\ idx' = 0
    /\ lastPoll' = "none"

\* the end of runAgent (finally), and of runPipeline (end of try, finally)
Finish ==
    /\ Return
    /\ loading' = FALSE
    /\ runningAgentId' = NoJobId

\* a catch block without alert(): the finally block runs at once
Caught_noalert ==
    /\ Return
    /\ loading' = FALSE
    /\ runningAgentId' = IF kind = "agent" THEN NoJobId ELSE runningAgentId

\* an exception reaches the catch block of the run in flight: alert() blocks
\* the page until it is dismissed
Caught ==
    /\ pc' = "alert"
    /\ UNCHANGED <<loading, runningAgentId, kind, startReqs, curAgent, curJob,
                   jobsOrdered, idx, lastPoll>>

\* the alert is dismissed: the finally block runs and the run returns
DismissAlert ==
    /\ pc = "alert"
    /\ Return
    /\ loading' = FALSE
    /\ runningAgentId' = IF kind = "agent" THEN NoJobId ELSE runningAgentId
    /\ UNCHANGED <<pageVars, autoVars, artifactVars, jobs, streamVars, backendVars, queried, resolved,
                   lineVars>>

\* no alert is open: the event loop runs handlers
Unblocked == pc # "alert" /\ autoAlert = "none"

\* the body of a stage for entry k of ordered, up to its first status query:
\* setJobs(create), startSseForJob, setRunningAgentId, pollUntilDone
Stage(js, ordered, k) ==
    LET w == Register([jobs |-> js, st |-> [es |-> es, refs |-> sseRefs]],
                      stageEntries(ordered, k))
    IN /\ jobs' = w.jobs
       /\ es' = w.st.es
       /\ sseRefs' = w.st.refs
       /\ runningAgentId' = ordered[k].job_id
       /\ curJob' = ordered[k].job_id
       /\ curAgent' = ordered[k].agent
       /\ jobsOrdered' = ordered
       /\ idx' = k
       /\ pc' = "poll_wait"
       /\ lastPoll' = "none"
       /\ queried' = queried \cup {ordered[k].job_id}

\* POST run/{agent} is answered (ok) or fails
runAgentWith(ok) ==
    /\ pc = "start_wait" /\ kind = "agent"
    /\ IF ok
       THEN /\ Stage(jobs, <<[job_id |-> nextId, agent |-> curAgent]>>, 1)
            /\ nextId' = nextId + 1
            /\ enqueued' = enqueued \cup {nextId}
            /\ UNCHANGED <<loading, kind, startReqs>>
       ELSE /\ Caught
            /\ UNCHANGED <<jobs, streamVars, backendVars, queried>>
    /\ UNCHANGED <<pageVars, autoVars, artifactVars, resolved, lineVars>>

runAgent == \E ok \in BOOLEAN : runAgentWith(ok)

\* POST run/pipeline is answered (ok, with a list of n jobs) or fails
runPipelineWith(ok, n) ==
    /\ pc = "start_wait" /\ kind = "pipeline"
    /\ IF ok
       THEN LET ordered == PipelineJobs(nextId, n) IN
            /\ nextId' = nextId + n
            /\ enqueued' = enqueued \cup {ordered[k].job_id : k \in 1..n}
            /\ IF n > 0
               THEN Stage(jobs, ordered, 1) /\ UNCHANGED <<loading, kind, startReqs>>
               ELSE Finish /\ UNCHANGED <<jobs, streamVars, queried>>
       ELSE /\ Caught
            /\ UNCHANGED <<jobs, streamVars, backendVars, queried>>
    /\ UNCHANGED <<pageVars, autoVars, artifactVars, resolved, lineVars>>

runPipeline ==
    \E ok \in BOOLEAN, n \in 0..Min(Len(PipelineAgents), MaxJobs + 1 - nextId) :
        runPipelineWith(ok, n)

\* GET job/{jobId} is answered with r (or fails) inside pollUntilDone
PollAnswerWith(r) ==
    /\ pc = "poll_wait"
    /\ LET p == pollUntilDone(jobs, curJob, r) IN
         /\ jobs' = p.jobs
         /\ IF p.thrown
            THEN Caught
            ELSE /\ pc' = IF p.done THEN "fetch_delay" ELSE "poll_sleep"
                 /\ lastPoll' = IF p.done THEN "none" ELSE r
                 /\ UNCHANGED <<loading, runningAgentId, curAgent, curJob,
                                jobsOrdered, idx, kind, startReqs>>
    /\ UNCHANGED <<pageVars, autoVars, artifactVars, streamVars, backendVars, queried, resolved, lineVars>>

PollAnswer == \E r \in PollAnswers : PollAnswerWith(r)

\* the interval of pollUntilDone elapses and the next status query is issued
PollTimer ==
    /\ pc = "poll_sleep"
    /\ pc' = "poll_wait"
    /\ lastPoll' = "none"
    /\ UNCHANGED <<pageVars, autoVars, artifactVars, loading, jobs, runningAgentId, streamVars, kind, curAgent,
                   curJob, jobsOrdered, idx, backendVars, startReqs, queried,
                   resolved, lineVars>>

\* the grace delay of fetchOutputAndAttach elapses and the output request is issued
FetchTimer ==
    /\ pc = "fetch_delay"
    /\ pc' = "fetch_wait"
    /\ UNCHANGED <<pageVars, autoVars, artifactVars, loading, jobs, runningAgentId, streamVars, kind, curAgent,
                   curJob, jobsOrdered, idx, backendVars, startReqs, resolved,
                   pollHist, lineVars>>

\* GET output/{agentName} is answered (ok, with payload) or fails; the run
\* continues after the await: the next stage, or the end of the run
FetchAnswerWith(ok, payload) ==
    /\ pc = "fetch_wait"
    /\ LET f == fetchOutputAndAttach(jobs, curAgent, curJob, ok, payload) IN
         /\ resolved' = resolved \cup {curJob}
         /\ IF f.thrown
            THEN /\ jobs' = f.jobs
                 /\ Caught
                 /\ UNCHANGED <<streamVars, queried>>
            ELSE IF kind = "pipeline" /\ idx < Len(jobsOrdered)
            THEN /\ Stage(f.jobs, jobsOrdered, idx + 1)
                 /\ UNCHANGED <<loading, kind, startReqs>>
            ELSE /\ jobs' = f.jobs
                 /\ Finish
                 /\ UNCHANGED <<streamVars, queried>>
    /\ UNCHANGED <<pageVars, autoVars, artifactVars, backendVars, lineVars>>

FetchAnswer == \E ok \in BOOLEAN, payload \in Payloads : FetchAnswerWith(ok, payload)

\* a message event with e.data = data is delivered on live stream i
MessageOn(i, data, limit) ==
    /\ Unblocked
    /\ nLines < limit
    /\ i \in 1..Len(es)
    /\ es[i].readyState = "OPEN"
    /\ jobs' = onmessage(jobs, es[i].job, data)
    /\ received' = [received EXCEPT ![es[i].job] = Append(@, data)]
    /\ nLines' = nLines + 1
    /\ UNCHANGED <<pageVars, autoVars, artifactVars, loading, runningAgentId, streamVars, runVars, backendVars,
                   startReqs, resolved, pollHist>>

StreamMessage == \E i \in 1..Len(es), data \in Lines : MessageOn(i, data, MaxRunLines)

\* the server sends the named close event on live stream i
CloseOn(i) ==
    /\ Unblocked
    /\ i \in 1..Len(es)
    /\ es[i].readyState = "OPEN"
    /\ LET st == onclose([es |-> es, refs |-> sseRefs], i) IN
         es' = st.es /\ sseRefs' = st.refs
    /\ UNCHANGED <<pageVars, autoVars, artifactVars, loading, jobs, runningAgentId, runVars, backendVars,
                   startReqs, resolved, pollHist, lineVars>>

StreamClose == \E i \in 1..Len(es) : CloseOn(i)

\* the connection of live stream i fails
ErrorOn(i, fatal) ==
    /\ Unblocked
    /\ i \in 1..Len(es)
    /\ es[i].readyState = "OPEN"
    /\ LET st == onerror([es |-> es, refs |-> sseRefs], i, fatal) IN
         es' = st.es /\ sseRefs' = st.refs
    /\ UNCHANGED <<pageVars, autoVars, artifactVars, loading, jobs, runningAgentId, runVars, backendVars,
                   startReqs, resolved, pollHist, lineVars>>

StreamError == \E i \in 1..Len(es), fatal \in BOOLEAN : ErrorOn(i, fatal)

\* the page is left: the cleanup of the mount effect runs
Teardown ==
    /\ Unblocked
    /\ mounted
    /\ mounted' = FALSE
    /\ LET st == cleanup([es |-> es, refs |-> sseRefs]) IN
         es' = st.es /\ sseRefs' = st.refs
    /\ UNCHANGED <<listDone, agents, username, autoVars, artifactVars, loading, jobs, runningAgentId, runVars,
                   backendVars, startReqs, resolved, pollHist, lineVars>>

Next ==
    \/ ListResponse
    \/ ClickRun
    \/ ClickPipeline
    \/ runAgent
    \/ runPipeline
    \/ PollAnswer
    \/ PollTimer
    \/ FetchTimer
    \/ FetchAnswer
    \/ DismissAlert
    \/ StreamMessage
    \/ StreamClose
    \/ StreamError
    \/ Teardown

Spec == Init /\ [][Next]_vars

\* ------------------------------------------------------------------------
\* The log stream manager on its own: startSseForJob is called for any job
\* identifier at any time, between the events of the streams and the teardown.
AttachTo(j) ==
    /\ Len(es) < MaxStreams
    /\ LET st == startSseForJob([es |-> es, refs |-> sseRefs], j) IN
         es' = st.es /\ sseRefs' = st.refs
    /\ UNCHANGED <<pageVars, autoVars, artifactVars, loading, jobs, runningAgentId, runVars, backendVars,
                   startReqs, resolved, pollHist, lineVars>>

Attach == \E j \in JobIds : AttachTo(j)

DirectMessage == \E i \in 1..Len(es), data \in Lines : MessageOn(i, data, MaxLines)

NextStream ==
    \/ Attach
    \/ DirectMessage
    \/ StreamClose
    \/ StreamError
    \/ Teardown

SpecStream == Init /\ [][NextStream]_vars

\* ------------------------------------------------------------------------
\* Progress of a run.  The timers of pollUntilDone and fetchOutputAndAttach
\* fire, every request is answered, and the backend does not answer the
\* status queries of a job with errors and non-terminal statuses for ever.
\* Nothing is assumed about the user (clicks, dismissing an alert, leaving
\* the page) or about the log streams.
TerminalAnswer == \E r \in Terminal : PollAnswerWith(r)

Fairness ==
    /\ WF_vars(runAgent)
    /\ WF_vars(runPipeline)
    /\ WF_vars(PollAnswer)
    /\ SF_vars(TerminalAnswer)
    /\ WF_vars(PollTimer)
    /\ WF_vars(FetchTimer)
    /\ WF_vars(FetchAnswer)

\* The run with the log lines and the close events of its streams; a failing
\* stream connection is left out: es.onerror is empty, the failure changes
\* nothing a run reads or writes.
NextLive ==
    \/ ListResponse
    \/ ClickRun
    \/ ClickPipeline
    \/ runAgent
    \/ runPipeline
    \/ PollAnswer
    \/ PollTimer
    \/ FetchTimer
    \/ FetchAnswer
    \/ DismissAlert
    \/ StreamMessage
    \/ StreamClose
    \/ Teardown

SpecLive == Init /\ [][NextLive]_vars /\ Fairness

\* ------------------------------------------------------------------------
\* The auto-reply controls of the email_sender card: the flag
\* emailAutoReplyRunning, written by startAutoReply, by stopAutoReply and by
\* the status poll that runs every two seconds while the page is mounted.

StatusAnswers == {"true", "false", "absent", "error"}

\* startAutoReply setting the flag before it knows the answer
startAutoReply_optimistic(flag, ok) == [flag |-> TRUE, alert |-> ~ok]

\* startAutoReply after its request is answered (ok) or has failed
startAutoReply(flag, ok) == [flag |-> IF ok THEN TRUE ELSE flag, alert |-> ~ok]

\* stopAutoReply after its request is answered (ok) or has failed
stopAutoReply(flag, ok) == [flag |-> IF ok THEN FALSE ELSE flag, alert |-> ~ok]

\* poll() writing the flag without looking at mounted
statusPoll_unmounted(flag, isMounted, res) ==
    CASE res = "true" -> TRUE
      [] res = "false" -> FALSE
      [] res = "absent" -> flag
      [] res = "error" -> FALSE

\* poll() writing the flag only when the backend reports the loop running
statusPoll_onlytrue(flag, isMounted, res) ==
    CASE res = "true" -> IF isMounted THEN TRUE ELSE flag
      [] res = "false" -> flag
      [] res = "absent" -> flag
      [] res = "error" -> IF isMounted THEN FALSE ELSE flag

\* poll() after its request is answered: res.data.running true or false, no
\* running field, or a failed request
statusPoll(flag, isMounted, res) ==
    CASE res = "true" -> IF isMounted THEN TRUE ELSE flag
      [] res = "false" -> IF isMounted THEN FALSE ELSE flag
      [] res = "absent" -> flag
      [] res = "error" -> IF isMounted THEN FALSE ELSE flag

\* the page once /agents/list has been answered with the email_sender agent
InitAuto ==
    /\ mounted = TRUE
    /\ listDone = TRUE
    /\ agents = {"email_sender"}
    /\ loading = FALSE
    /\ jobs = <<>>
    /\ runningAgentId = NoJobId
    /\ es = <<>>
    /\ sseRefs = [j \in JobIds |-> 0]
    /\ pc = "idle"
    /\ kind = "none"
    /\ curAgent = Unset
    /\ curJob = NoJobId
    /\ jobsOrdered = <<>>
    /\ idx = 0
    /\ nextId = 1
    /\ enqueued = {}
    /\ startReqs = 0
    /\ queried = {}
    /\ resolved = {}
    /\ lastPoll = "none"
    /\ received = [j \in JobIds |-> <<>>]
    /\ nLines = 0
    /\ emailAutoReplyRunning = FALSE
    /\ startCalls = 0
    /\ stopCalls = 0
    /\ statusPolls = 1
    /\ autoAlert = "none"
    /\ username = TRUE
    /\ lateReplies = 0
    /\ outcome = [j \in JobIds |-> "pending"]
    /\ artifact = [a \in AgentNames |-> NoJobId]
    /\ backendRunning = FALSE
    /\ settled = FALSE
    /\ stalePolls = 0

\* the email_sender card is rendered
AutoReplyOffered == mounted /\ ~loading /\ "email_sender" \in agents /\ Unblocked

\* what the auto-reply controls leave alone
runState ==
    <<pageVars, artifactVars, syncVars, loading, jobs, runningAgentId, streamVars, runVars, backendVars,
      startReqs, resolved, pollHist, lineVars>>

\* Start Auto-Reply is clicked: startAutoReply issues its request
ClickStartAutoReply ==
    /\ AutoReplyOffered
    /\ ~emailAutoReplyRunning
    /\ startCalls < MaxCalls
    /\ startCalls' = startCalls + 1
    /\ UNCHANGED <<runState, emailAutoReplyRunning, stopCalls, statusPolls, autoAlert,
                   lateReplies>>

\* the request of a startAutoReply call is answered (ok) or fails
StartAutoReplyAnswerWith(ok) ==
    /\ Unblocked
    /\ startCalls > 0
    /\ startCalls' = startCalls - 1
    /\ LET a == startAutoReply(emailAutoReplyRunning, ok) IN
         /\ emailAutoReplyRunning' = a.flag
         /\ autoAlert' = IF a.alert THEN "start" ELSE autoAlert
    /\ UNCHANGED <<runState, stopCalls, statusPolls, lateReplies>>

StartAutoReplyAnswer == \E ok \in BOOLEAN : StartAutoReplyAnswerWith(ok)

\* Stop Auto-Reply is clicked: stopAutoReply issues its request
ClickStopAutoReply ==
    /\ AutoReplyOffered
    /\ emailAutoReplyRunning
    /\ stopCalls < MaxCalls
    /\ stopCalls' = stopCalls + 1
    /\ UNCHANGED <<runState, emailAutoReplyRunning, startCalls, statusPolls, autoAlert,
                   lateReplies>>

\* the request of a stopAutoReply call is answered (ok) or fails
StopAutoReplyAnswerWith(ok) ==
    /\ Unblocked
    /\ stopCalls > 0
    /\ stopCalls' = stopCalls - 1
    /\ LET a == stopAutoReply(emailAutoReplyRunning, ok) IN
         /\ emailAutoReplyRunning' = a.flag
         /\ autoAlert' = IF a.alert THEN "stop" ELSE autoAlert
    /\ UNCHANGED <<runState, startCalls, statusPolls, lateReplies>>

StopAutoReplyAnswer == \E ok \in BOOLEAN : StopAutoReplyAnswerWith(ok)

\* the alert of startAutoReply or stopAutoReply is dismissed
DismissAutoAlert ==
    /\ autoAlert # "none"
    /\ autoAlert' = "none"
    /\ UNCHANGED <<runState, emailAutoReplyRunning, startCalls, stopCalls, statusPolls,
                   lateReplies>>

\* the interval of the status poll elapses: poll() issues its request
StatusPollTick ==
    /\ Unblocked
    /\ mounted
    /\ username
    /\ statusPolls < MaxCalls
    /\ statusPolls' = statusPolls + 1
    /\ UNCHANGED <<runState, emailAutoReplyRunning, startCalls, stopCalls, autoAlert,
                   lateReplies>>

\* the request of a status poll is answered
StatusPollAnswer ==
    /\ Unblocked
    /\ statusPolls > 0
    /\ statusPolls' = statusPolls - 1
    /\ \E res \in StatusAnswers :
         emailAutoReplyRunning' = statusPoll(emailAutoReplyRunning, mounted, res)
    /\ lateReplies' = IF mounted THEN lateReplies ELSE lateReplies + 1
    /\ UNCHANGED <<runState, startCalls, stopCalls, autoAlert>>

NextAuto ==
    \/ ClickStartAutoReply
    \/ StartAutoReplyAnswer
    \/ ClickStopAutoReply
    \/ StopAutoReplyAnswer
    \/ DismissAutoAlert
    \/ StatusPollTick
    \/ StatusPollAnswer
    \/ Teardown

SpecAuto == InitAuto /\ [][NextAuto]_vars

\* ------------------------------------------------------------------------
\* The auto-reply flag against the backend it reports.  The backend holds
\* whether the auto-reply loop runs; the loop starts and stops on the
\* requests of the page and on its own.  A status poll is answered with the
\* state the backend had when it served the request, so an answer in flight
\* while the backend changes may carry the state before the change.  From
\* some point on (settled) the backend state no longer changes, no control is
\* clicked and every status query issued is answered with the state.

\* what email_sender/status answers when the loop is, or is not, running
statusOf(running) == IF running THEN "true" ELSE "false"

\* Start Auto-Reply is clicked before the point
SyncClickStart == ~settled /\ ClickStartAutoReply

\* Stop Auto-Reply is clicked before the point
SyncClickStop == ~settled /\ ClickStopAutoReply

\* the auto-reply loop starts or stops; the status polls in flight may have
\* been served before
BackendChange ==
    /\ ~settled
    /\ backendRunning' = ~backendRunning
    /\ stalePolls' = statusPolls
    /\ UNCHANGED <<pageVars, artifactVars, loading, jobs, runningAgentId,
                   streamVars, runVars, backendVars, startReqs, resolved,
                   pollHist, lineVars, emailAutoReplyRunning, startCalls,
                   stopCalls, statusPolls, autoAlert, lateReplies, settled>>

\* the point from which the backend state stays as it is
Settle ==
    /\ ~settled
    /\ mounted
    /\ settled' = TRUE
    /\ UNCHANGED <<pageVars, artifactVars, loading, jobs, runningAgentId,
                   streamVars, runVars, backendVars, startReqs, resolved,
                   pollHist, lineVars, emailAutoReplyRunning, startCalls,
                   stopCalls, statusPolls, autoAlert, lateReplies,
                   backendRunning, stalePolls>>

\* a status poll served before the last backend change is answered: it
\* carries either state, or (before the point) no running field or a failure
StalePollAnswer ==
    /\ Unblocked
    /\ stalePolls > 0
    /\ stalePolls' = stalePolls - 1
    /\ statusPolls' = statusPolls - 1
    /\ \E res \in StatusAnswers :
         /\ settled => res \in {"true", "false"}
         /\ emailAutoReplyRunning' = statusPoll(emailAutoReplyRunning, mounted, res)
    /\ UNCHANGED <<pageVars, artifactVars, loading, jobs, runningAgentId,
                   streamVars, runVars, backendVars, startReqs, resolved,
                   pollHist, lineVars, startCalls, stopCalls, autoAlert,
                   lateReplies, backendRunning, settled>>

\* a status poll served in the present backend state is answered: it carries
\* that state, or (before the point) no running field or a failure
FreshPollAnswer ==
    /\ Unblocked
    /\ statusPolls > stalePolls
    /\ statusPolls' = statusPolls - 1
    /\ \E res \in StatusAnswers :
         /\ res \in {"true", "false"} => res = statusOf(backendRunning)
         /\ settled => res \in {"true", "false"}
         /\ emailAutoReplyRunning' = statusPoll(emailAutoReplyRunning, mounted, res)
    /\ UNCHANGED <<pageVars, artifactVars, loading, jobs, runningAgentId,
                   streamVars, runVars, backendVars, startReqs, resolved,
                   pollHist, lineVars, startCalls, stopCalls, autoAlert,
                   lateReplies, syncVars>>

NextSync ==
    \/ SyncClickStart
    \/ StartAutoReplyAnswer
    \/ SyncClickStop
    \/ StopAutoReplyAnswer
    \/ DismissAutoAlert
    \/ StatusPollTick
    \/ StalePollAnswer
    \/ FreshPollAnswer
    \/ BackendChange
    \/ Settle

\* the interval timer fires while the page is mounted, every request in
\* flight is answered, and an open alert is dismissed
FairSync ==
    /\ WF_vars(StatusPollTick)
    /\ WF_vars(StalePollAnswer)
    /\ WF_vars(FreshPollAnswer)
    /\ WF_vars(StartAutoReplyAnswer)
    /\ WF_vars(StopAutoReplyAnswer)
    /\ WF_vars(DismissAutoAlert)

SpecSync == InitAuto /\ [][NextSync]_vars /\ FairSync

\* ------------------------------------------------------------------------
\* The page from its mount, with or without a stored username: the list
\* fetch, the runs, the status poll of the auto-reply flag and the teardown.
\* The log events are left out (they change neither the controller nor the
\* flag); the list a pipeline start returns may end with an element that is
\* not an object (null).

\* the state after construction, for either content of localStorage
InitPage ==
    /\ username \in BOOLEAN
    /\ mounted = TRUE
    /\ listDone = FALSE
    /\ agents = {}
    /\ loading = TRUE
    /\ jobs = <<>>
    /\ runningAgentId = NoJobId
    /\ es = <<>>
    /\ sseRefs = [j \in JobIds |-> 0]
    /\ pc = "idle"
    /\ kind = "none"
    /\ curAgent = Unset
    /\ curJob = NoJobId
    /\ jobsOrdered = <<>>
    /\ idx = 0
    /\ nextId = 1
    /\ enqueued = {}
    /\ startReqs = 0
    /\ queried = {}
    /\ resolved = {}
    /\ lastPoll = "none"
    /\ received = [j \in JobIds |-> <<>>]
    /\ nLines = 0
    /\ emailAutoReplyRunning = FALSE
    /\ startCalls = 0
    /\ stopCalls = 0
    /\ statusPolls = statusPollEffect(username)
    /\ autoAlert = "none"
    /\ lateReplies = 0
    /\ outcome = [j \in JobIds |-> "pending"]
    /\ artifact = [a \in AgentNames |-> NoJobId]
    /\ backendRunning = FALSE
    /\ settled = FALSE
    /\ stalePolls = 0

\* the list of a pipeline start held null after the entries of jobsOrdered:
\* the output request of the last of them is answered, the loop of
\* runPipeline goes on to the null element and reading j.job_id throws, which
\* the catch of runPipeline handles
StageThrows ==
    /\ pc = "fetch_wait"
    /\ kind = "pipeline"
    /\ idx = Len(jobsOrdered)
    /\ \E ok \in BOOLEAN, payload \in Payloads :
         jobs' = fetchOutputAndAttach(jobs, curAgent, curJob, ok, payload).jobs
    /\ resolved' = resolved \cup {curJob}
    /\ Caught
    /\ UNCHANGED <<pageVars, autoVars, artifactVars, streamVars, backendVars, queried, lineVars>>

NextPage ==
    \/ ListResponse
    \/ ClickRun
    \/ ClickPipeline
    \/ runAgent
    \/ runPipeline
    \/ PollAnswer
    \/ PollTimer
    \/ FetchTimer
    \/ FetchAnswer
    \/ StageThrows
    \/ DismissAlert
    \/ StatusPollTick
    \/ StatusPollAnswer
    \/ Teardown

SpecPage == InitPage /\ [][NextPage]_vars

\* ------------------------------------------------------------------------
\* The runs against a backend that keeps one output artifact per agent: a job
\* that completes overwrites the artifact of its agent, a job that fails
\* writes none, and GET output/{agent} returns the artifact the agent has.
\* Each job ends while the page polls it.  Log events are left out.

\* r.data.output when the artifact of the agent was written by job j
Art(j) == "artifact of job " \o ToString(j)

\* the backend ends the job the page is polling
BackendFinish ==
    /\ pc \in {"poll_wait", "poll_sleep"}
    /\ outcome[curJob] = "pending"
    /\ \E o \in Terminal :
         /\ outcome' = [outcome EXCEPT ![curJob] = o]
         /\ artifact' = IF o = "completed"
                         THEN [artifact EXCEPT ![curAgent] = curJob]
                         ELSE artifact
    /\ UNCHANGED <<pageVars, autoVars, loading, jobs, runningAgentId, streamVars,
                   runVars, backendVars, startReqs, resolved, pollHist, lineVars>>

\* GET job/{jobId} is answered with the state the backend holds, or fails
BackendPollAnswer ==
    \E r \in PollAnswers :
        /\ pc = "poll_wait"
        /\ r \in Terminal => outcome[curJob] = r
        /\ r \in {"queued", "running"} => outcome[curJob] = "pending"
        /\ PollAnswerWith(r)

\* GET output/{agentName} is answered with the artifact of the agent, or
\* fails (always when the agent has no artifact)
BackendFetchAnswer ==
    \E ok \in BOOLEAN :
        /\ pc = "fetch_wait"
        /\ ok => artifact[curAgent] # NoJobId
        /\ FetchAnswerWith(ok, Art(artifact[curAgent]))

NextBackend ==
    \/ ListResponse
    \/ ClickRun
    \/ ClickPipeline
    \/ runAgent
    \/ runPipeline
    \/ BackendFinish
    \/ BackendPollAnswer
    \/ PollTimer
    \/ FetchTimer
    \/ BackendFetchAnswer
    \/ DismissAlert
    \/ Teardown

SpecBackend == Init /\ [][NextBackend]_vars

TypeOK ==
    /\ mounted \in BOOLEAN /\ loading \in BOOLEAN /\ listDone \in BOOLEAN
    /\ DOMAIN jobs \subseteq JobIds
    /\ runningAgentId \in JobIds \cup {NoJobId}
    /\ pc \in {"idle", "start_wait", "poll_wait", "poll_sleep", "fetch_delay",
               "fetch_wait", "alert"}
    /\ \A i \in 1..Len(es) : es[i].job \in JobIds
    /\ \A j \in JobIds : sseRefs[j] \in 0..Len(es)

\* a run action is offered only when no run is in flight
GateIdle == RunEnabled => pc = "idle"

\* ------------------------------------------------------------------------
\* Properties

\* an EventSource was constructed for job j
Attached(j) == \E i \in 1..Len(es) : es[i].job = j

\* the live streams of job j
Live(j) == {i \in 1..Len(es) : es[i].job = j /\ es[i].readyState = "OPEN"}

\* the identifier of entry k of the pipeline in flight
StageId(k) == jobsOrdered[k].job_id

\* the log of job j, empty while the registry has no entry for it
LogOf(j) == IF j \in DOMAIN jobs THEN jobs[j].logs ELSE <<>>

\* a line with a character that is not whitespace
NonBlank(l) == \E i \in 1..Len(l) : l[i] \notin WS

\* the position of a status on queued -> running -> {completed, failed}
Rank(st) ==
    CASE st = "queued" -> 1
      [] st = "running" -> 2
      [] st \in Terminal -> 3
      [] OTHER -> 0

\* C1: in runPipeline the returned jobs are processed in the returned order
\* and never overlap: an entry has its stream attached or a status query
\* issued only when the loop has reached it, and then the output fetch of
\* every entry before it has resolved.
C1_PipelineInOrder ==
    kind = "pipeline" =>
        \A k \in 1..Len(jobsOrdered) :
            (Attached(StageId(k)) \/ StageId(k) \in queried) =>
                /\ k <= idx
                /\ \A m \in 1..(k - 1) : StageId(m) \in resolved

C1_Witness ==
    /\ kind = "pipeline"
    /\ Len(jobsOrdered) = 3
    /\ idx = 3
    /\ pc = "poll_wait"
    /\ Attached(StageId(3))
    /\ StageId(3) \in queried
    /\ {StageId(1), StageId(2)} \subseteq resolved

\* C2 as stated: the request that starts a stage is issued only after the
\* output fetch of the stage before it has resolved.
C2_StartAfterPreviousFetch ==
    kind = "pipeline" =>
        \A k \in 1..(Len(jobsOrdered) - 1) :
            StageId(k + 1) \in enqueued => StageId(k) \in resolved

\* C2 as amended: one start request starts the whole pipeline (every stage's
\* job exists on the backend as soon as it is answered); the job entries are
\* then created in order and without overlap: the entry of a stage is created
\* only after the output fetch of the stage before it has resolved.
C2_EntriesInOrder ==
    kind = "pipeline" =>
        /\ startReqs = 1
        /\ \A k \in 1..Len(jobsOrdered) : StageId(k) \in enqueued
        /\ \A k \in 1..(Len(jobsOrdered) - 1) :
              StageId(k + 1) \in DOMAIN jobs => StageId(k) \in resolved

C2_Witness ==
    /\ kind = "pipeline"
    /\ Len(jobsOrdered) = 3
    /\ {StageId(1), StageId(2), StageId(3)} \subseteq DOMAIN jobs
    /\ jobs[StageId(1)].agent = PipelineAgents[1]
    /\ jobs[StageId(2)].agent = PipelineAgents[2]
    /\ jobs[StageId(3)].agent = PipelineAgents[3]
    /\ StageId(3) \notin resolved

\* C3: the status of every job of the registry only moves forward along
\* queued -> running -> {completed, failed}: no step lowers it, and a
\* completed or failed status is never replaced.
C3_StatusForward ==
    [][\A j \in DOMAIN jobs :
          /\ j \in DOMAIN jobs'
          /\ Rank(jobs'[j].status) >= Rank(jobs[j].status)
          /\ jobs[j].status \in Terminal => jobs'[j].status = jobs[j].status]_vars

C3_Witness ==
    \E j \in DOMAIN jobs :
        /\ jobs[j].status \in Terminal
        /\ jobs[j].logs # <<>>
        /\ j \in resolved
        /\ \E i \in Live(j) : TRUE

\* C4: a job entry carries an output only if completed was observed for the
\* job and its output fetch has resolved.
C4_OutputOnlyIfCompleted ==
    \A j \in DOMAIN jobs :
        jobs[j].output # Unset => jobs[j].status = "completed" /\ j \in resolved

\* C5: at most one live log stream exists per job identifier, however often
\* startSseForJob is called for it.
C5_OneLiveStream == \A j \in JobIds : Cardinality(Live(j)) <= 1

C5_Witness ==
    \E j \in JobIds :
        /\ sseRefs[j] # 0
        /\ Live(j) = {sseRefs[j]}
        /\ \E i \in 1..Len(es) : es[i].job = j /\ i # sseRefs[j]

\* C6: the teardown leaves no log stream open, whatever the run in flight is
\* doing.
C6_TeardownClosesAll ==
    [][mounted /\ ~mounted' =>
          \A i \in 1..Len(es') : es'[i].readyState # "OPEN"]_vars

C6_Witness ==
    /\ ~mounted
    /\ pc \in {"poll_wait", "poll_sleep", "fetch_delay", "fetch_wait"}
    /\ kind = "pipeline"
    /\ \E i \in 1..Len(es) : es[i].by = "teardown"
    /\ Cardinality({i \in 1..Len(es) : es[i].by = "teardown"}) >= 2

\* C7 as stated: a stream that got the close event, or whose connection
\* failed, is closed and no longer recorded as attached.
C7_ReleasedOnCloseOrError ==
    \A i \in 1..Len(es) :
        es[i].by \in {"close", "error"} =>
            es[i].readyState = "CLOSED" /\ sseRefs[es[i].job] # i

\* C7 as amended: a stream that got the close event is closed and no longer
\* recorded as attached (a later attach opens a new stream); a stream whose
\* connection failed stays recorded as attached.
C7_ReleasedOnCloseOnly ==
    \A i \in 1..Len(es) :
        /\ es[i].by = "close" =>
              es[i].readyState = "CLOSED" /\ sseRefs[es[i].job] # i
        /\ es[i].by = "error" => sseRefs[es[i].job] = i

C7_Witness ==
    \E i \in 1..Len(es), k \in 1..Len(es) :
        /\ es[i].by = "close"
        /\ k > i
        /\ es[k].job = es[i].job
        /\ sseRefs[es[i].job] = k

\* C8 as stated: the log of a job is the subsequence of the lines delivered
\* on its stream that are not empty or whitespace-only, each as delivered.
C8_LogIsVerbatimSubsequence ==
    \A j \in JobIds : LogOf(j) = SelectSeq(received[j], NonBlank)

\* C8 as amended: the log of a job is the subsequence of the lines delivered
\* on its stream that are not empty or whitespace-only, in receipt order,
\* each with its leading and trailing whitespace removed.
C8_LogIsTrimmedSubsequence ==
    \A j \in JobIds :
        LET kept == SelectSeq(received[j], NonBlank) IN
        LogOf(j) = [i \in 1..Len(kept) |-> trim(kept[i])]

C8_Witness ==
    \E j \in JobIds :
        /\ Len(received[j]) = 2
        /\ ~NonBlank(received[j][1])
        /\ received[j][2] = <<" ", "b", "\t">>
        /\ LogOf(j) = << <<"b">> >>

\* C9: pollUntilDone keeps querying while the query fails or answers a status
\* that is not terminal: such an answer changes neither the registry nor the
\* controller, raises no alert and leads to the next query; the poller is left
\* only on an answer completed or failed, which is the status then written.
C9_PollKeepsQuerying ==
    [][/\ \A r \in PollAnswers \ Terminal :
             PollAnswerWith(r) =>
                 /\ jobs' = jobs
                 /\ pc' = "poll_sleep"
                 /\ UNCHANGED <<loading, runningAgentId, curJob>>
       /\ (pc = "poll_sleep" /\ pc' # pc) => pc' = "poll_wait"
       /\ (pc = "poll_wait" /\ pc' \notin {"poll_wait", "poll_sleep"}) =>
             /\ pc' = "fetch_delay"
             /\ jobs'[curJob].status \in Terminal
             /\ PollAnswerWith(jobs'[curJob].status)]_vars

C9_Witness ==
    /\ pc = "poll_sleep"
    /\ lastPoll = "error"
    /\ curJob \in DOMAIN jobs
    /\ jobs[curJob].status = "queued"

\* C10: a failed output request sets output_error on the job entry and
\* nothing else (output stays unset, status and logs stay), raises no alert
\* and is not retried; a single run returns to idle and a pipeline goes on
\* with its next stage.
C10_FetchFailureIsRecorded ==
    [][\A p \in Payloads :
          FetchAnswerWith(FALSE, p) =>
              /\ curJob \in DOMAIN jobs
              /\ jobs'[curJob] = [jobs[curJob] EXCEPT !.output_error = OutputError]
              /\ jobs'[curJob].output = Unset
              /\ \A j \in DOMAIN jobs \ {curJob} : jobs'[j] = jobs[j]
              /\ IF kind = "pipeline" /\ idx < Len(jobsOrdered)
                 THEN /\ pc' = "poll_wait"
                      /\ curJob' = StageId(idx + 1)
                      /\ curJob' \in DOMAIN jobs'
                      /\ loading'
                 ELSE /\ pc' = "idle"
                      /\ ~loading'
                      /\ runningAgentId' = NoJobId]_vars

C10_Witness ==
    /\ kind = "pipeline"
    /\ idx = 2
    /\ pc = "poll_wait"
    /\ jobs[StageId(1)].output_error = OutputError
    /\ jobs[StageId(1)].output = Unset
    /\ jobs[StageId(1)].status = "completed"

\* C11: a failed start request of runAgent or runPipeline creates no job
\* entry, attaches no stream, issues no status query and processes no stage;
\* it raises one alert, and when the alert is dismissed the controller is idle
\* with loading false and runningAgentId none, the registry still untouched.
C11_StartFailureAborts ==
    [][/\ (runAgentWith(FALSE) \/ \E n \in 0..MaxJobs : runPipelineWith(FALSE, n)) =>
             /\ pc' = "alert"
             /\ UNCHANGED <<jobs, es, sseRefs, queried, enqueued>>
             /\ curJob' = NoJobId /\ idx' = 0 /\ jobsOrdered' = <<>>
       /\ pc = "alert" =>
             /\ pc' \in {"alert", "idle"}
             /\ UNCHANGED <<jobs, es, sseRefs, queried, enqueued>>
             /\ pc' = "idle" => ~loading' /\ runningAgentId' = NoJobId]_vars

C11_Witness ==
    /\ pc = "alert"
    /\ kind = "pipeline"
    /\ loading
    /\ runningAgentId = NoJobId
    /\ DOMAIN jobs = {1}
    /\ queried = {1}

\* C12: in runPipeline a stage that ends failed does not stop the pipeline:
\* the answer failed is written to the entry of that stage only and the stage
\* goes on to its output fetch; when the fetch resolves, the next job of the
\* list gets its own entry (queued), its stream and its first status query.
C12_FailedStageGoesOn ==
    [][/\ (kind = "pipeline" /\ PollAnswerWith("failed")) =>
             /\ pc' = "fetch_delay"
             /\ jobs'[curJob].status = "failed"
             /\ \A j \in DOMAIN jobs \ {curJob} : jobs'[j] = jobs[j]
             /\ UNCHANGED <<jobsOrdered, idx, curJob, loading>>
       /\ (/\ kind = "pipeline" /\ pc = "fetch_wait" /\ pc' # pc
           /\ jobs[curJob].status = "failed"
           /\ idx < Len(jobsOrdered)) =>
             /\ pc' = "poll_wait"
             /\ idx' = idx + 1
             /\ curJob' = StageId(idx + 1)
             /\ jobs'[curJob'] = NewJob(PipelineAgents[idx + 1])
             /\ \E i \in 1..Len(es') :
                   es'[i].job = curJob' /\ es'[i].readyState = "OPEN"
             /\ curJob' \in queried'
             /\ jobs'[curJob].status = "failed"
             /\ loading']_vars

C12_Witness ==
    /\ kind = "pipeline"
    /\ Len(jobsOrdered) = 3
    /\ idx = 3
    /\ pc = "fetch_delay"
    /\ jobs[StageId(1)].status = "failed"
    /\ jobs[StageId(2)].status = "completed"
    /\ jobs[StageId(3)].status = "completed"
    /\ {StageId(1), StageId(2)} \subseteq resolved

\* C13: while a run is in flight, from its first statement (before the start
\* request is answered) until it has returned, loading is true, so the Run
\* and Run Full Workflow buttons are not rendered and no second run begins.
C13_OneRunInFlight ==
    pc # "idle" => loading /\ ~RunEnabled

C13_Witness ==
    /\ pc = "start_wait"
    /\ mounted
    /\ listDone
    /\ loading
    /\ runningAgentId = NoJobId
    /\ DOMAIN jobs # {}

\* C14: the writers of one entry (stream manager, poller, fetcher) never
\* erase each other's fields, in any order of their writes: the entry holds
\* one log line per non-blank line received, keeps its agent, holds a terminal
\* status once the poller has left the job, and holds the fetch result once
\* the fetch has resolved.
C14_NoLostUpdate ==
    \A j \in DOMAIN jobs :
        /\ Len(jobs[j].logs) = Len(SelectSeq(received[j], NonBlank))
        /\ jobs[j].agent \in {PipelineAgents[k] : k \in 1..Len(PipelineAgents)}
        /\ (j # curJob \/ pc \in {"fetch_delay", "fetch_wait"}) =>
              jobs[j].status \in Terminal
        /\ j \in resolved =>
              /\ jobs[j].status \in Terminal
              /\ jobs[j].output # Unset \/ jobs[j].output_error # Unset

C14_Witness ==
    \E j \in DOMAIN jobs :
        /\ j \in resolved
        /\ Len(jobs[j].logs) = 1
        /\ jobs[j].status = "completed"
        /\ jobs[j].output_error = OutputError
        /\ \E i \in 1..Len(es) : es[i].job = j /\ es[i].by = "close"

\* C15: the output of a job is set at most once: the output request of a job
\* is answered for a job whose fetch has not resolved and whose output is
\* unset, and once set the output is never changed or removed.
C15_OutputSetOnce ==
    [][/\ \A j \in DOMAIN jobs :
             jobs[j].output # Unset =>
                 j \in DOMAIN jobs' /\ jobs'[j].output = jobs[j].output
       /\ \A p \in Payloads :
             FetchAnswerWith(TRUE, p) =>
                 /\ curJob \notin resolved
                 /\ jobs[curJob].output = Unset
                 /\ jobs'[curJob].output = p]_vars

C15_Witness ==
    \E j \in DOMAIN jobs, k \in DOMAIN jobs :
        /\ j < k
        /\ jobs[j].output # Unset
        /\ jobs[j].logs # <<>>
        /\ jobs[k].output # Unset
        /\ {j, k} \subseteq resolved

\* C16: the output request of a job is issued (and its grace delay started)
\* only when a status query of that job has answered completed or failed and
\* that status is in the job's entry; every job whose fetch has resolved has
\* a terminal status.
C16_FetchAfterTerminal ==
    /\ pc \in {"fetch_delay", "fetch_wait"} =>
          /\ curJob \in queried
          /\ curJob \in DOMAIN jobs
          /\ jobs[curJob].status \in Terminal
    /\ \A j \in resolved : j \in queried /\ jobs[j].status \in Terminal

C16_Witness ==
    /\ pc = "fetch_wait"
    /\ kind = "agent"
    /\ jobs[curJob].status = "failed"
    /\ jobs[curJob].logs # <<>>
    /\ curJob \notin resolved

\* C17: once the start request of a run has succeeded (its first stage is
\* being polled), the run eventually returns to idle with loading false and
\* runningAgentId none, every job of the run fetched, provided timers fire,
\* requests are answered and each job is eventually answered completed or
\* failed; for a single run and for a pipeline of any length.
C17_RunReturns ==
    (pc = "poll_wait") ~>
        (/\ pc = "idle" /\ ~loading /\ runningAgentId = NoJobId
         /\ queried \subseteq resolved)

C17_Witness ==
    /\ pc = "idle"
    /\ ~loading
    /\ runningAgentId = NoJobId
    /\ resolved = {1, 2, 3}
    /\ jobs[1].agent = PipelineAgents[1]
    /\ jobs[2].agent = PipelineAgents[1]
    /\ jobs[3].agent = PipelineAgents[2]

\* C18: in a single-agent run whose job was answered completed, the answer
\* of the output request with payload P leaves the entry of the job with the
\* agent of the run, status completed, output P, no output_error and the logs
\* it had, and leaves the controller idle.
C18_SingleRunResult ==
    [][\A p \in Payloads :
          (/\ kind = "agent"
           /\ pc = "fetch_wait"
           /\ jobs[curJob].status = "completed"
           /\ FetchAnswerWith(TRUE, p)) =>
              /\ jobs'[curJob] =
                    [status |-> "completed", agent |-> curAgent,
                     logs |-> jobs[curJob].logs, output |-> p,
                     output_error |-> Unset]
              /\ pc' = "idle"
              /\ ~loading'
              /\ runningAgentId' = NoJobId]_vars

C18_Witness ==
    /\ pc = "idle"
    /\ ~loading
    /\ runningAgentId = NoJobId
    /\ DOMAIN jobs = {1}
    /\ jobs[1] = [status |-> "completed", agent |-> "enrichment_agent",
                  logs |-> << <<"a">> >>, output |-> "p1", output_error |-> Unset]

\* C20: the entry of a job (status queued, no logs, the agent of the stage)
\* is created in the step that attaches its stream and issues its first
\* status query, never after: every job with a stream or a status query has
\* an entry, so a log line always arrives at an existing entry.
C20_EntryBeforeStream ==
    [][\A j \in JobIds :
          /\ (j \notin DOMAIN jobs /\
                (j \in DOMAIN jobs' \/ sseRefs'[j] # 0 \/ j \in queried')) =>
                /\ j \in DOMAIN jobs'
                /\ jobs'[j] = NewJob(curAgent')
                /\ j = curJob'
          /\ (Attached(j) \/ j \in queried) => j \in DOMAIN jobs]_vars

C20_Witness ==
    /\ kind = "pipeline"
    /\ idx = 2
    /\ pc = "poll_wait"
    /\ jobs[curJob].status = "queued"
    /\ jobs[curJob].agent = PipelineAgents[2]
    /\ jobs[curJob].logs = << <<"b">> >>
    /\ received[curJob] # <<>>

\* C19: startAutoReply sets the flag to true, and stopAutoReply sets it to
\* false, only when their request succeeds; when the request fails the call
\* leaves the flag as it is and opens one alert, and nothing changes the flag
\* or opens another alert until that alert is dismissed.
C19_FlagFollowsAnswer ==
    [][/\ StartAutoReplyAnswerWith(TRUE) =>
             emailAutoReplyRunning' /\ autoAlert' = "none"
       /\ StartAutoReplyAnswerWith(FALSE) =>
             /\ emailAutoReplyRunning' = emailAutoReplyRunning
             /\ autoAlert = "none" /\ autoAlert' = "start"
       /\ StopAutoReplyAnswerWith(TRUE) =>
             ~emailAutoReplyRunning' /\ autoAlert' = "none"
       /\ StopAutoReplyAnswerWith(FALSE) =>
             /\ emailAutoReplyRunning' = emailAutoReplyRunning
             /\ autoAlert = "none" /\ autoAlert' = "stop"
       /\ autoAlert # "none" =>
             /\ emailAutoReplyRunning' = emailAutoReplyRunning
             /\ autoAlert' \in {autoAlert, "none"}]_vars

C19_Witness ==
    /\ emailAutoReplyRunning
    /\ autoAlert = "stop"
    /\ startCalls = 1
    /\ stopCalls = 0

C22_PollStopsAtTeardown ==
    [][/\ (mounted /\ username /\ pc # "alert" /\ statusPolls < MaxCalls) =>
             ENABLED StatusPollTick
       /\ ~mounted =>
             /\ statusPolls' <= statusPolls
             /\ emailAutoReplyRunning' = emailAutoReplyRunning]_vars

C22_Witness ==
    /\ ~mounted
    /\ lateReplies = 2
    /\ statusPolls = 0
    /\ emailAutoReplyRunning
    /\ pc = "poll_sleep"
    /\ kind = "pipeline"

\* C23: the delivery of a non-blank line on the stream of a job appends the
\* trimmed line to the logs of that job and changes nothing else: the status
\* stays when set (running when unset), agent, output and output_error stay,
\* every other entry stays and no entry is added.
C23_LineChangesLogsOnly ==
    [][\A i \in 1..Len(es), data \in Lines :
          (NonBlank(data) /\ MessageOn(i, data, MaxRunLines)) =>
              LET j == es[i].job IN
              /\ j \in DOMAIN jobs
              /\ DOMAIN jobs' = DOMAIN jobs
              /\ jobs'[j] =
                    [jobs[j] EXCEPT !.logs = Append(@, trim(data)),
                                    !.status = IF @ = Unset THEN "running" ELSE @]
              /\ \A k \in DOMAIN jobs \ {j} : jobs'[k] = jobs[k]]_vars

C23_Witness ==
    \E j \in DOMAIN jobs, k \in DOMAIN jobs :
        /\ j # k
        /\ jobs[j].logs = << <<"b">> >>
        /\ jobs[j].status = "failed"
        /\ jobs[j].output # Unset
        /\ jobs[k].logs = <<>>
        /\ jobs[k].status = "queued"

\* C24: once the page has been torn down no log stream is open, also when a
\* run was in flight at the teardown.
C24_NoStreamAfterTeardown ==
    ~mounted => \A i \in 1..Len(es) : es[i].readyState # "OPEN"

\* C25: whenever no run is executing on the loaded page, runningAgentId is
\* none and loading is false, by whatever path the last run ended.
C25_IdleMeansReleased ==
    (pc = "idle" /\ mounted /\ listDone) =>
        runningAgentId = NoJobId /\ ~loading

\* C26: the output of a job entry is the artifact that same job wrote.
C26_OutputOfSameJob ==
    \A j \in DOMAIN jobs : jobs[j].output # Unset => jobs[j].output = Art(j)

\* C27: no entry holds both output and output_error: neither is set until
\* the output fetch of the job has resolved, and exactly one is set after.
C27_OutputXorError ==
    \A j \in DOMAIN jobs :
        IF j \in resolved
        THEN (jobs[j].output # Unset) # (jobs[j].output_error # Unset)
        ELSE jobs[j].output = Unset /\ jobs[j].output_error = Unset

C27_Witness ==
    \E a \in DOMAIN jobs, b \in DOMAIN jobs, c \in DOMAIN jobs :
        /\ {a, b} \subseteq resolved
        /\ c \notin resolved
        /\ jobs[a].output # Unset
        /\ jobs[b].output_error # Unset
        /\ jobs[c].logs # <<>>

\* C28: the status of a registry entry is queued, completed or failed and
\* never running, whatever the status queries answer and whatever lines
\* arrive: a job is queued exactly while its poller runs and goes from queued
\* to the terminal status the poller was told.
C28_NeverRunning ==
    \A j \in DOMAIN jobs :
        /\ jobs[j].status \in {"queued"} \cup Terminal
        /\ jobs[j].status = "queued" <=>
              (j = curJob /\ pc \in {"poll_wait", "poll_sleep"})

C28_Witness ==
    /\ pc = "poll_sleep"
    /\ lastPoll = "running"
    /\ jobs[curJob].status = "queued"
    /\ jobs[curJob].logs # <<>>

\* C30: without a stored username the page issues no request: the agent list
\* is never fetched, no status poll, no start request and no stream exist,
\* and loading stays true, so no run action is offered.
C30_NoUserNoRequest ==
    ~username =>
        /\ ~listDone /\ agents = {}
        /\ loading /\ ~RunEnabled /\ pc = "idle"
        /\ statusPolls = 0 /\ startCalls = 0 /\ stopCalls = 0
        /\ enqueued = {} /\ queried = {} /\ es = <<>>
        /\ ~ENABLED ListResponse
        /\ ~ENABLED StatusPollTick

C30_Witness ==
    /\ ~username
    /\ ~mounted
    /\ loading

\* C29: once the backend's auto-reply state stays constant, the page stays
\* mounted, no start or stop request is made and the status queries succeed,
\* the displayed flag eventually equals the backend's state and stays equal
\* to it, whatever startAutoReply / stopAutoReply results and stale poll
\* answers were still in flight.
C29_FlagConverges == settled ~> [](emailAutoReplyRunning = backendRunning)

\* the point is reached with the flag differing from the backend's state, a
\* stale poll answer in flight and a start or stop request unanswered
C29_Witness ==
    /\ settled
    /\ emailAutoReplyRunning # backendRunning
    /\ stalePolls > 0
    /\ startCalls + stopCalls > 0

====
